---------------------------- MODULE Spec2Model ----------------------------
(***************************************************************************)
(* Session lifecycle of the M.A.R.S client: the App component's store      *)
(* (sessionId, uploadedFiles, messages, isProcessing), the Sidebar's       *)
(* upload / clear / remove handlers and the ChatArea's submit handler,     *)
(* with the three network calls (POST /upload, POST /chat,                 *)
(* DELETE /session/{id}) as requests in flight that settle later.          *)
(*                                                                         *)
(* Execution model: one event handler, or one continuation after an        *)
(* await, runs to completion per step, and React re-renders between        *)
(* steps.  A handler therefore reads the state of the latest render,       *)
(* except where the source memoizes it (useCallback with an empty          *)
(* dependency list): such a handler keeps the values of the first render.  *)
(*                                                                         *)
(* Text is modelled as a sequence of tokens, so that trimming and template *)
(* literals are computed rather than assumed.                              *)
(***************************************************************************)
EXTENDS Naturals, Sequences, FiniteSets, TLC

\* ----------------------------------------------------------------- bounds
MaxFiles == 2
MaxUploadCalls == 2
MaxDeleteCalls == 1
MaxChatCalls == 2
MaxMessages == 2
\* The transcript bound of the runs without a clear (SpecNoClear), where the
\* transcript only grows.
MaxMessagesNoClear == 4
\* The files tracked or in flight in the runs with two overlapping batches
\* (SpecOverlap).
MaxFilesOverlap == 3

\* ------------------------------------------------------------ value sets
\* JavaScript null (useState(null)).
NULL == "null"

\* The null of the Sidebar's error notice, a text: setError is only ever given
\* null or a non-empty string, and the markup tests the notice for truthiness.
NoError == <<>>

\* Session identifiers the backend may issue.
SessionIds == {"s1", "s2"}

\* File names a user may select, and the chunk counts the backend reports.
FileNames == {"notes.pdf", "b.txt"}
Chunks == {12}

\* Batches a drop or a file selection may carry (the empty one included).
Batches == {<<>>, <<"notes.pdf">>, <<"notes.pdf", "b.txt">>}

\* Texts a user may have in the textarea.
Inputs == {<<>>, <<" ">>, <<" ", "a", " ">>}

\* The two values of the model toggle.
Models == {"gemini", "ollama"}

\* Bodies POST /chat may answer with: every optional field present or absent.
ChatResponses ==
    { [response |-> <<"X is...">>, sources |-> <<"notes.pdf">>, model |-> "gemini"],
      [response |-> <<"X is...">>] }

\* Ways a call may reject: with a response whose body carries a detail string,
\* and with no response at all (a network failure).
Rejections ==
    { [response |-> [data |-> [detail |-> <<"Backend unavailable">>]]],
      [message |-> <<"Network Error">>] }

VARIABLES
    sessionId,      \* App: useState(null)
    uploadedFiles,  \* App: useState([])
    messages,       \* App: useState([])
    isProcessing,   \* App: useState(false)
    error,          \* Sidebar: useState(null), see NoError
    input,          \* ChatArea: useState('')
    isLoading,      \* ChatArea: useState(false)
    selectedModel,  \* ChatArea: useState('gemini')
    uploadCalls,    \* POST /upload requests in flight, in submission order
    chatCalls,      \* POST /chat requests in flight, in submission order
    deleteCalls     \* DELETE /session/{id} requests in flight, in submission order

vars == <<sessionId, uploadedFiles, messages, isProcessing, error, input,
          isLoading, selectedModel, uploadCalls, chatCalls, deleteCalls>>

storeVars == <<sessionId, uploadedFiles, messages>>
sidebarVars == <<isProcessing, error>>
chatAreaVars == <<input, isLoading, selectedModel>>
callVars == <<uploadCalls, chatCalls, deleteCalls>>

\* ---------------------------------------------------------------- helpers
\* s without its i-th element.
RemoveAt(s, i) == SubSeq(s, 1, i - 1) \o SubSeq(s, i + 1, Len(s))

IsSpace(c) == c = " "

RECURSIVE TrimStart(_)
TrimStart(s) ==
    IF s # <<>> /\ IsSpace(Head(s)) THEN TrimStart(Tail(s)) ELSE s

RECURSIVE TrimEnd(_)
TrimEnd(s) ==
    IF s # <<>> /\ IsSpace(s[Len(s)]) THEN TrimEnd(SubSeq(s, 1, Len(s) - 1)) ELSE s

\* String.prototype.trim
Trim(s) == TrimEnd(TrimStart(s))

\* Array.prototype.join of file names with a separator, as text.
RECURSIVE Join(_, _)
Join(names, sep) ==
    IF names = <<>> THEN <<>>
    ELSE IF Len(names) = 1 THEN <<names[1]>>
    ELSE <<names[1], sep>> \o Join(Tail(names), sep)

\* A lookup that reads err.detail instead of the response body's.
Detail_Shallow(err) == IF "detail" \in DOMAIN err THEN err.detail ELSE <<>>

\* err.response?.data?.detail; undefined is the empty text, which || treats alike.
Detail(err) ==
    IF /\ "response" \in DOMAIN err
       /\ "data" \in DOMAIN err.response
       /\ "detail" \in DOMAIN err.response.data
    THEN err.response.data.detail
    ELSE <<>>

\* x || fallback, for a text x.
OrElse(x, fallback) == IF x = <<>> THEN fallback ELSE x

\* The fields of obj among keys (a key holding undefined is an absent key).
Pick(obj, keys) == [k \in (keys \cap DOMAIN obj) |-> obj[k]]

Init ==
    /\ sessionId = NULL
    /\ uploadedFiles = <<>>
    /\ messages = <<>>
    /\ isProcessing = FALSE
    /\ error = NoError
    /\ input = <<>>
    /\ isLoading = FALSE
    /\ selectedModel = "gemini"
    /\ uploadCalls = <<>>
    /\ chatCalls = <<>>
    /\ deleteCalls = <<>>

\* ------------------------------------------------------------------- App
\* A file set that keeps one descriptor per name: a file whose name is already
\* tracked is not added again.
addFiles_Dedups(prev, newFiles) ==
    prev \o SelectSeq(newFiles, LAMBDA f : \A k \in 1..Len(prev) : prev[k].name # f.name)

\* A file set that lists the newest batch first.
addFiles_InFront(prev, newFiles) == newFiles \o prev

\* setUploadedFiles(prev => [...prev, ...newFiles])
addFiles(prev, newFiles) == prev \o newFiles

\* A removal that takes out the first descriptor of the name only.
removeFile_FirstOnly(prev, filename) ==
    LET hits == {k \in 1..Len(prev) : prev[k].name = filename}
    IN  IF hits = {} THEN prev
        ELSE LET first == CHOOSE k \in hits : \A h \in hits : k <= h
             IN  [j \in 1..(Len(prev) - 1) |-> IF j < first THEN prev[j] ELSE prev[j + 1]]

\* setUploadedFiles(prev => prev.filter(f => f.name !== filename))
removeFile(prev, filename) == SelectSeq(prev, LAMBDA f : f.name # filename)

\* An append that puts the new message first.
appendMessage_Prepends(prev, message) == <<message>> \o prev

\* setMessages(prev => [...prev, message])
appendMessage(prev, message) == Append(prev, message)


\* A clear that leaves the file list standing.
handleClearSession_KeepsFiles ==
    /\ sessionId' = NULL
    /\ uploadedFiles' = uploadedFiles
    /\ messages' = <<>>

\* A clear that forgets the transcript.
handleClearSession_KeepsMessages ==
    /\ sessionId' = NULL
    /\ uploadedFiles' = <<>>
    /\ messages' = messages

\* handleClearSession: setSessionId(null); setUploadedFiles([]); setMessages([])
handleClearSession ==
    /\ sessionId' = NULL
    /\ uploadedFiles' = <<>>
    /\ messages' = <<>>

\* The sessionId that handleFilesUploaded reads.  The Sidebar only ever runs
\* the handleFiles of its first render (see HandleFilesSessionId), whose
\* onFilesUploaded prop is the handleFilesUploaded of App's first render,
\* where sessionId is the initial null.
HandleFilesUploadedSessionId == NULL

\* handleFilesUploaded(newFiles, newSessionId), on the store st =
\* [sessionId, uploadedFiles] as the earlier calls of the same step left it.
handleFilesUploaded(st, newFiles, newSessionId) ==
    LET st1 == [st EXCEPT !.uploadedFiles = addFiles(@, newFiles)]
    IN  IF newSessionId # NULL /\ HandleFilesUploadedSessionId = NULL
        THEN [st1 EXCEPT !.sessionId = newSessionId]
        ELSE st1

\* --------------------------------------------------------------- Sidebar
\* The sessionId prop that handleFiles reads.  handleDrop and handleFileSelect
\* are useCallback(..., []) closures: React keeps the functions of the first
\* render, and these call the handleFiles of that render, whose sessionId
\* prop is the initial null whatever the store holds later.
HandleFilesSessionId == NULL

\* Files of requests still in flight.
RECURSIVE InFlightFiles(_)
InFlightFiles(calls) ==
    IF calls = <<>> THEN 0 ELSE Len(Head(calls).files) + InFlightFiles(Tail(calls))

\* The FormData handleFiles builds: every file, plus session_id if truthy.
FormData(files) ==
    IF HandleFilesSessionId # NULL
    THEN [files |-> files, session_id |-> HandleFilesSessionId]
    ELSE [files |-> files]

\* An upload that posts every file of the batch in a request of its own.
handleFiles_OnePerFile(files) ==
    IF Len(files) = 0
    THEN UNCHANGED <<isProcessing, error, uploadCalls>>
    ELSE /\ isProcessing' = TRUE
         /\ error' = NoError
         /\ uploadCalls' = uploadCalls \o [k \in 1..Len(files) |-> FormData(<<files[k]>>)]

\* handleFiles up to its await.
handleFiles(files) ==
    IF Len(files) = 0
    THEN UNCHANGED <<isProcessing, error, uploadCalls>>
    ELSE /\ isProcessing' = TRUE
         /\ error' = NoError
         /\ uploadCalls' = Append(uploadCalls, FormData(files))

\* The model's bound on what a batch may add.
BatchFits(files) ==
    Len(files) > 0 =>
        /\ Len(uploadCalls) < MaxUploadCalls
        /\ Len(uploadedFiles) + InFlightFiles(uploadCalls) + Len(files) <= MaxFiles

\* handleDrop: the dropped files go to handleFiles.  (The drag-over highlight,
\* isDragging, is a flag of the dropzone's markup that nothing else reads.)
handleDrop(files) ==
    /\ BatchFits(files)
    /\ handleFiles(files)
    /\ UNCHANGED <<storeVars, chatAreaVars, chatCalls, deleteCalls>>

\* handleFileSelect: the files picked in the file dialog go to handleFiles.
handleFileSelect(files) ==
    /\ BatchFits(files)
    /\ handleFiles(files)
    /\ UNCHANGED <<storeVars, chatAreaVars, chatCalls, deleteCalls>>

\* <<1, ..., n>>
Indices(n) == [i \in 1..n |-> i]

\* Bodies a successful POST /upload may answer a batch with: a session id, and
\* each file of the batch either processed (with a chunk count) or failed,
\* both lists in the order of the batch.
UploadResponses(files) ==
    { [session_id |-> s,
       processed_files |->
           [k \in 1..Len(SelectSeq(Indices(Len(files)), LAMBDA i : i \in ok)) |->
               LET i == SelectSeq(Indices(Len(files)), LAMBDA j : j \in ok)[k]
               IN  [filename |-> files[i], chunks |-> c[i]]],
       errors |->
           [k \in 1..Len(SelectSeq(Indices(Len(files)), LAMBDA i : i \notin ok)) |->
               LET i == SelectSeq(Indices(Len(files)), LAMBDA j : j \notin ok)[k]
               IN  [filename |-> files[i]]]] :
      s \in SessionIds, ok \in SUBSET (1..Len(files)),
      c \in [1..Len(files) -> Chunks] }

\* A mapping that takes the number of files for the chunk count.
Descriptors_CountsFiles(processed_files) ==
    [k \in 1..Len(processed_files) |->
        [name |-> processed_files[k].filename, chunks |-> Len(processed_files)]]

\* processed_files.map(f => ({ name: f.filename, chunks: f.chunks }))
Descriptors(processed_files) ==
    [k \in 1..Len(processed_files) |->
        [name |-> processed_files[k].filename, chunks |-> processed_files[k].chunks]]

\* errors.map(e => e.filename)
FailedNames(errors) == [k \in 1..Len(errors) |-> errors[k].filename]

\* The store after the try block of handleFiles has run on a response body.
UploadedStore(data) ==
    LET st0 == [sessionId |-> sessionId, uploadedFiles |-> uploadedFiles]
        st1 == IF HandleFilesSessionId = NULL
               THEN [st0 EXCEPT !.sessionId = data.session_id]
               ELSE st0
    IN  IF Len(data.processed_files) > 0
        THEN handleFilesUploaded(st1, Descriptors(data.processed_files), data.session_id)
        ELSE st1

\* An upload whose pending flag is lowered in the catch block only.
UploadResolve_NoFinally(i, data) ==
    /\ i \in 1..Len(uploadCalls)
    /\ data \in UploadResponses(uploadCalls[i].files)
    /\ uploadCalls' = RemoveAt(uploadCalls, i)
    /\ sessionId' = UploadedStore(data).sessionId
    /\ uploadedFiles' = UploadedStore(data).uploadedFiles
    /\ error' = IF Len(data.errors) > 0
                THEN <<"Some files failed: ">> \o Join(FailedNames(data.errors), ", ")
                ELSE error
    /\ UNCHANGED <<isProcessing, messages, chatAreaVars, chatCalls, deleteCalls>>

\* An upload that treats a response with per-file failures as failed: the
\* notice is set and the accepted files are not added.
UploadResolve_FailuresBlock(i, data) ==
    /\ i \in 1..Len(uploadCalls)
    /\ data \in UploadResponses(uploadCalls[i].files)
    /\ uploadCalls' = RemoveAt(uploadCalls, i)
    /\ IF Len(data.errors) > 0
       THEN /\ error' = <<"Some files failed: ">> \o Join(FailedNames(data.errors), ", ")
            /\ UNCHANGED <<sessionId, uploadedFiles>>
       ELSE /\ error' = error
            /\ sessionId' = UploadedStore(data).sessionId
            /\ uploadedFiles' = UploadedStore(data).uploadedFiles
    /\ isProcessing' = FALSE
    /\ UNCHANGED <<messages, chatAreaVars, chatCalls, deleteCalls>>

\* handleFiles after its await, the request fulfilled: try block, then finally.
UploadResolve(i, data) ==
    /\ i \in 1..Len(uploadCalls)
    /\ data \in UploadResponses(uploadCalls[i].files)
    /\ uploadCalls' = RemoveAt(uploadCalls, i)
    /\ sessionId' = UploadedStore(data).sessionId
    /\ uploadedFiles' = UploadedStore(data).uploadedFiles
    /\ error' = IF Len(data.errors) > 0
                THEN <<"Some files failed: ">> \o Join(FailedNames(data.errors), ", ")
                ELSE error
    /\ isProcessing' = FALSE
    /\ UNCHANGED <<messages, chatAreaVars, chatCalls, deleteCalls>>

\* An upload whose pending flag is lowered in the try block only.
UploadReject_NoFinally(i, err) ==
    /\ i \in 1..Len(uploadCalls)
    /\ uploadCalls' = RemoveAt(uploadCalls, i)
    /\ error' = OrElse(Detail(err), <<"Upload failed. Make sure the backend is running.">>)
    /\ UNCHANGED <<isProcessing, storeVars, chatAreaVars, chatCalls, deleteCalls>>

\* handleFiles after its await, the request rejected: catch block, then finally.
UploadReject(i, err) ==
    /\ i \in 1..Len(uploadCalls)
    /\ uploadCalls' = RemoveAt(uploadCalls, i)
    /\ error' = OrElse(Detail(err), <<"Upload failed. Make sure the backend is running.">>)
    /\ isProcessing' = FALSE
    /\ UNCHANGED <<storeVars, chatAreaVars, chatCalls, deleteCalls>>

\* handleClear up to its await.  The "Clear all" button is rendered inside the
\* file list, which exists only while uploadedFiles is not empty.  With no
\* session id nothing is awaited and onClearSession runs in the same step.
handleClear ==
    /\ Len(uploadedFiles) > 0
    /\ IF sessionId # NULL
       THEN /\ Len(deleteCalls) < MaxDeleteCalls
            /\ deleteCalls' = Append(deleteCalls, [session_id |-> sessionId])
            /\ UNCHANGED storeVars
       ELSE /\ handleClearSession
            /\ UNCHANGED deleteCalls
    /\ UNCHANGED <<sidebarVars, chatAreaVars, uploadCalls, chatCalls>>

\* A clear that also drops the calls in flight.
DeleteResolve_Cancelling(i) ==
    /\ i \in 1..Len(deleteCalls)
    /\ deleteCalls' = RemoveAt(deleteCalls, i)
    /\ handleClearSession
    /\ uploadCalls' = <<>>
    /\ chatCalls' = <<>>
    /\ UNCHANGED <<sidebarVars, chatAreaVars>>

\* handleClear after its await, the deletion fulfilled: onClearSession().
DeleteResolve(i) ==
    /\ i \in 1..Len(deleteCalls)
    /\ deleteCalls' = RemoveAt(deleteCalls, i)
    /\ handleClearSession
    /\ UNCHANGED <<sidebarVars, chatAreaVars, uploadCalls, chatCalls>>

\* A clear whose catch block returns instead of falling through.
DeleteReject_NoReset(i, err) ==
    /\ i \in 1..Len(deleteCalls)
    /\ deleteCalls' = RemoveAt(deleteCalls, i)
    /\ UNCHANGED <<storeVars, sidebarVars, chatAreaVars, uploadCalls, chatCalls>>

\* handleClear after its await, the deletion rejected: the catch block only
\* writes to the console, then onClearSession().
DeleteReject(i, err) ==
    /\ i \in 1..Len(deleteCalls)
    /\ deleteCalls' = RemoveAt(deleteCalls, i)
    /\ handleClearSession
    /\ UNCHANGED <<sidebarVars, chatAreaVars, uploadCalls, chatCalls>>

\* handleRemoveFile(file.name), from the remove button of a listed file.
handleRemoveFile(filename) ==
    /\ \E k \in 1..Len(uploadedFiles) : uploadedFiles[k].name = filename
    /\ uploadedFiles' = removeFile(uploadedFiles, filename)
    /\ UNCHANGED <<sessionId, messages, sidebarVars, chatAreaVars, callVars>>

\* -------------------------------------------------------------- ChatArea
\* onChange of the textarea: setInput(e.target.value)
setInput(value) ==
    /\ input' = value
    /\ UNCHANGED <<storeVars, sidebarVars, isLoading, selectedModel, callVars>>

\* A model switch that also starts the draft afresh.
setSelectedModel_ClearsInput(model) ==
    /\ selectedModel' = model
    /\ input' = <<>>
    /\ UNCHANGED <<storeVars, sidebarVars, isLoading, callVars>>

\* onClick of a model button: setSelectedModel(model)
setSelectedModel(model) ==
    /\ selectedModel' = model
    /\ UNCHANGED <<storeVars, sidebarVars, input, isLoading, callVars>>

\* A guard that tests the raw input instead of the trimmed one.
SubmitRejected_NoTrim == input = <<>> \/ isLoading

\* A guard that forgets the pending flag.
SubmitRejected_IgnoresLoading == Trim(input) = <<>>

\* if (!input.trim() || isLoading) return
SubmitRejected == Trim(input) = <<>> \/ isLoading

\* A request body that sends the store's session id as it is, null included.
ChatRequest_NoDefault(userMessage) ==
    [message |-> userMessage,
     session_id |-> sessionId,
     model |-> selectedModel]

\* The body of POST /chat.
ChatRequest(userMessage) ==
    [message |-> userMessage,
     session_id |-> IF sessionId # NULL THEN sessionId ELSE "default",
     model |-> selectedModel]

\* handleSubmit up to its await (form submit, or Enter without Shift); limit
\* is the model's bound on the transcript.
handleSubmitUpTo(limit) ==
    IF SubmitRejected
    THEN UNCHANGED vars
    ELSE /\ Len(messages) + 2 <= limit
         /\ Len(chatCalls) < MaxChatCalls
         /\ input' = <<>>
         /\ isLoading' = TRUE
         /\ messages' = appendMessage(messages,
                            [role |-> "user", content |-> Trim(input)])
         /\ chatCalls' = Append(chatCalls, ChatRequest(Trim(input)))
         /\ UNCHANGED <<sessionId, uploadedFiles, sidebarVars, selectedModel,
                        uploadCalls, deleteCalls>>

handleSubmit == handleSubmitUpTo(MaxMessages)

\* The assistant message of a fulfilled call.
AssistantMessage(data) ==
    [role |-> "assistant", content |-> data.response]
        @@ Pick(data, {"sources", "model"})

\* The assistant message of a rejected call.
ErrorMessage(err) ==
    [role |-> "assistant",
     content |-> <<"Error: ">> \o OrElse(Detail(err), <<"Failed to get response.">>),
     isError |-> TRUE]

\* handleSubmit after its await, the request fulfilled: try block, then finally.
ChatResolve(i, data) ==
    /\ i \in 1..Len(chatCalls)
    /\ chatCalls' = RemoveAt(chatCalls, i)
    /\ messages' = appendMessage(messages, AssistantMessage(data))
    /\ isLoading' = FALSE
    /\ UNCHANGED <<sessionId, uploadedFiles, sidebarVars, input, selectedModel,
                   uploadCalls, deleteCalls>>

\* handleSubmit after its await, the request rejected: catch block, then finally.
ChatReject(i, err) ==
    /\ i \in 1..Len(chatCalls)
    /\ chatCalls' = RemoveAt(chatCalls, i)
    /\ messages' = appendMessage(messages, ErrorMessage(err))
    /\ isLoading' = FALSE
    /\ UNCHANGED <<sessionId, uploadedFiles, sidebarVars, input, selectedModel,
                   uploadCalls, deleteCalls>>

\* ------------------------------------------------------------------ system
Next ==
    \/ \E files \in Batches : handleDrop(files)
    \/ \E files \in Batches : handleFileSelect(files)
    \/ \E i \in 1..Len(uploadCalls) :
           \E data \in UploadResponses(uploadCalls[i].files) : UploadResolve(i, data)
    \/ \E i \in 1..Len(uploadCalls), err \in Rejections : UploadReject(i, err)
    \/ handleClear
    \/ \E i \in 1..Len(deleteCalls) : DeleteResolve(i)
    \/ \E i \in 1..Len(deleteCalls), err \in Rejections : DeleteReject(i, err)
    \/ \E filename \in FileNames : handleRemoveFile(filename)
    \/ \E value \in Inputs : setInput(value)
    \/ \E model \in Models : setSelectedModel(model)
    \/ handleSubmit
    \/ \E i \in 1..Len(chatCalls), data \in ChatResponses : ChatResolve(i, data)
    \/ \E i \in 1..Len(chatCalls), err \in Rejections : ChatReject(i, err)

Spec == Init /\ [][Next]_vars

\* The runs without a clear: every step but those of handleClear.
NextNoClear ==
    \/ \E files \in Batches : handleDrop(files)
    \/ \E files \in Batches : handleFileSelect(files)
    \/ \E i \in 1..Len(uploadCalls) :
           \E data \in UploadResponses(uploadCalls[i].files) : UploadResolve(i, data)
    \/ \E i \in 1..Len(uploadCalls), err \in Rejections : UploadReject(i, err)
    \/ \E filename \in FileNames : handleRemoveFile(filename)
    \/ \E value \in Inputs : setInput(value)
    \/ \E model \in Models : setSelectedModel(model)
    \/ handleSubmitUpTo(MaxMessagesNoClear)
    \/ \E i \in 1..Len(chatCalls), data \in ChatResponses : ChatResolve(i, data)
    \/ \E i \in 1..Len(chatCalls), err \in Rejections : ChatReject(i, err)

SpecNoClear == Init /\ [][NextNoClear]_vars

\* Two batches that can be told apart, dropped one after the other.
OverlapFirst == <<"notes.pdf", "b.txt">>
OverlapSecond == <<"c.md">>

\* The names of their files.
OverlapNames == {"notes.pdf", "b.txt", "c.md"}

\* handleDrop of the first batch, on a page that tracks no file and has no
\* upload in flight.
handleDropFirst ==
    /\ uploadCalls = <<>>
    /\ uploadedFiles = <<>>
    /\ handleFiles(OverlapFirst)
    /\ UNCHANGED <<storeVars, chatAreaVars, chatCalls, deleteCalls>>

\* handleDrop of the second batch, while the first batch is the one upload in
\* flight.
handleDropSecond ==
    /\ uploadCalls = <<FormData(OverlapFirst)>>
    /\ Len(uploadedFiles) + Len(OverlapFirst) + Len(OverlapSecond) <= MaxFilesOverlap
    /\ handleFiles(OverlapSecond)
    /\ UNCHANGED <<storeVars, chatAreaVars, chatCalls, deleteCalls>>

\* The runs in which the first batch is dropped on an empty file set and the
\* second batch only while the first is in flight: a descriptor of the second
\* batch then always belongs to a batch submitted after the first batch whose
\* descriptors are tracked or still to come.  The model stays the one selected
\* at the start.
NextOverlap ==
    \/ handleDropFirst
    \/ handleDropSecond
    \/ \E i \in 1..Len(uploadCalls) :
           \E data \in UploadResponses(uploadCalls[i].files) : UploadResolve(i, data)
    \/ \E i \in 1..Len(uploadCalls), err \in Rejections : UploadReject(i, err)
    \/ handleClear
    \/ \E i \in 1..Len(deleteCalls) : DeleteResolve(i)
    \/ \E i \in 1..Len(deleteCalls), err \in Rejections : DeleteReject(i, err)
    \/ \E filename \in OverlapNames : handleRemoveFile(filename)
    \/ \E value \in Inputs : setInput(value)
    \/ handleSubmit
    \/ \E i \in 1..Len(chatCalls), data \in ChatResponses : ChatResolve(i, data)
    \/ \E i \in 1..Len(chatCalls), err \in Rejections : ChatReject(i, err)

SpecOverlap == Init /\ [][NextOverlap]_vars

\* The settling of the deletion call of a clear, fulfilled or rejected.
DeleteSettle ==
    \/ \E i \in 1..Len(deleteCalls) : DeleteResolve(i)
    \/ \E i \in 1..Len(deleteCalls), err \in Rejections : DeleteReject(i, err)

\* A network call settles sooner or later (the transport answers or fails).
FairSpec == Spec /\ WF_vars(DeleteSettle)

\* ------------------------------------------------------------------ claims
\* The store as clear() leaves it.
Reset == sessionId = NULL /\ uploadedFiles = <<>> /\ messages = <<>>

\* C1: with no clear in between, a session id that is set is never replaced
\* by another one: a step from a non-null id to a non-null id keeps the id.
C1_SessionIdNeverReplaced ==
    [][(sessionId # NULL /\ sessionId' # NULL) => sessionId' = sessionId]_vars

\* C2: an upload request issued while the store holds a session id carries
\* that id, and the field is omitted only when the store holds none.
C2_UploadCarriesSessionId ==
    [][Len(uploadCalls') = Len(uploadCalls) + 1 =>
         LET request == uploadCalls'[Len(uploadCalls')]
         IN  IF sessionId # NULL
             THEN "session_id" \in DOMAIN request /\ request.session_id = sessionId
             ELSE "session_id" \notin DOMAIN request]_vars

\* C3: the local reset never waits on the deletion call: while the deletion
\* call of a clear is in flight, the store no longer holds the session id the
\* clear was requested for.
C3_ResetDoesNotWait ==
    \A k \in 1..Len(deleteCalls) : sessionId # deleteCalls[k].session_id

\* Steps in which a call of one kind settles (its request leaves the flight).
DeleteSettled == Len(deleteCalls') < Len(deleteCalls)
ChatSettled == Len(chatCalls') < Len(chatCalls)
UploadSettled == Len(uploadCalls') < Len(uploadCalls)

\* C4: the local reset of clear resets the session id, the file set and the
\* transcript in one step: a step that performs a clear, nulls the session id
\* or shortens the transcript leaves all three reset.
C4_ClearResetsAllAtOnce ==
    [][(\/ DeleteSettled
        \/ sessionId # NULL /\ sessionId' = NULL
        \/ Len(messages') < Len(messages)) => Reset']_vars

\* C4 witness: the store is reset while a chat call is pending (its user
\* message is gone) and the notice of a failed upload is still shown.
C4_Witness ==
    /\ Reset
    /\ chatCalls # <<>>
    /\ error = <<"Upload failed. Make sure the backend is running.">>

\* C5: a pending clear request is always followed by the local reset, and
\* the settling of a deletion call, fulfilled or rejected, performs the reset
\* and changes nothing but the store: no error notice, no flag, no other call.
C5_ClearAlwaysResets ==
    /\ (deleteCalls # <<>>) ~> Reset
    /\ [][DeleteSettled =>
            /\ Reset'
            /\ UNCHANGED <<sidebarVars, chatAreaVars, uploadCalls, chatCalls>>]_vars

\* C5 witness: a clear has reset the store (a chat call outlived its user
\* message), no deletion call is left and no error notice is shown.
C5_Witness ==
    /\ Reset
    /\ deleteCalls = <<>>
    /\ isLoading
    /\ error = NoError

\* C6: a clear does not cancel the calls in flight, and a call in flight,
\* whenever it settles, is applied to the store as it then is: the assistant
\* or error message is appended to the transcript, the accepted files are
\* appended to the file set.
C6_LateResultsApplied ==
    /\ [](\A i \in 1..Len(chatCalls) :
            /\ \A data \in ChatResponses :
                  /\ ENABLED ChatResolve(i, data)
                  /\ ~ENABLED (ChatResolve(i, data)
                                 /\ messages' # Append(messages, AssistantMessage(data)))
            /\ \A err \in Rejections :
                  /\ ENABLED ChatReject(i, err)
                  /\ ~ENABLED (ChatReject(i, err)
                                 /\ messages' # Append(messages, ErrorMessage(err))))
    /\ [](\A i \in 1..Len(uploadCalls) :
            \A data \in UploadResponses(uploadCalls[i].files) :
                /\ ENABLED UploadResolve(i, data)
                /\ ~ENABLED (UploadResolve(i, data)
                               /\ uploadedFiles' #
                                     uploadedFiles \o Descriptors(data.processed_files)))
    /\ [][DeleteSettled => UNCHANGED <<uploadCalls, chatCalls>>]_vars

\* C6 witness: the transcript starts with an assistant message (the answer to
\* a question whose user message a clear removed) and files are tracked.
C6_Witness ==
    /\ messages # <<>>
    /\ messages[1].role = "assistant"
    /\ uploadedFiles # <<>>

\* C7: at most one chat request is in flight, and chat-pending is true exactly
\* while one is.
C7_OneChatInFlight ==
    /\ Len(chatCalls) <= 1
    /\ isLoading <=> chatCalls # <<>>

\* C7 witness: a chat call has failed and chat-pending is back to false.
C7_Witness ==
    /\ ~isLoading
    /\ chatCalls = <<>>
    /\ messages # <<>>
    /\ "isError" \in DOMAIN messages[Len(messages)]

\* The transcript is user, assistant, user, assistant, ...; its last message
\* is an unanswered user message exactly while that message's call is in
\* flight, and that call carries the message's text.
PairedTranscript ==
    /\ \A k \in 1..Len(messages) :
          messages[k].role = IF k % 2 = 1 THEN "user" ELSE "assistant"
    /\ (Len(messages) % 2 = 1) <=> chatCalls # <<>>
    /\ chatCalls # <<>> => messages[Len(messages)].content = chatCalls[1].message

\* C8: in a run without a clear the transcript is a sequence of (user,
\* assistant) pairs in submission order; an accepted submission appends its
\* user message in the same step; a step leaves the transcript as it is or
\* appends one message to it, so no message is changed, moved or removed.
C8_TranscriptInSubmissionOrder ==
    /\ []PairedTranscript
    /\ [][/\ \/ messages' = messages
              \/ /\ Len(messages') = Len(messages) + 1
                 /\ SubSeq(messages', 1, Len(messages)) = messages
           /\ Len(chatCalls') > Len(chatCalls) =>
                 messages' = Append(messages,
                     [role |-> "user",
                      content |-> chatCalls'[Len(chatCalls')].message])]_vars

\* C8 witness: two submissions, each answered: user1, assistant1, user2,
\* assistant2.
C8_Witness ==
    /\ Len(messages) = 4
    /\ chatCalls = <<>>
    /\ <<messages[1].role, messages[2].role, messages[3].role, messages[4].role>>
         = <<"user", "assistant", "user", "assistant">>

\* A text that is empty or holds only whitespace.
IsBlank(s) == \A k \in 1..Len(s) : s[k] = " "

\* C9: a submission with an empty or whitespace-only input, or made while a
\* chat call is pending, changes nothing: no request, no message, the input,
\* the pending flag, the session id and the file set as they were.
C9_RejectedSubmitIsNoOp ==
    (IsBlank(input) \/ isLoading) => ~ENABLED <<handleSubmit>>_vars

\* C9 witness: a whitespace-only input, no call pending, room in the
\* transcript: the handler runs and nothing but the guard stops it.
C9_Witness ==
    /\ input = <<" ">>
    /\ ~isLoading
    /\ Len(messages) + 2 <= MaxMessages
    /\ ENABLED handleSubmit

\* The assistant message C10 expects for a response body.
ExpectedAnswer(data) ==
    IF "sources" \in DOMAIN data /\ "model" \in DOMAIN data
    THEN [role |-> "assistant", content |-> data.response,
          sources |-> data.sources, model |-> data.model]
    ELSE [role |-> "assistant", content |-> data.response]

\* The error messages C10 expects, with the server's detail and without.
ExpectedDetailError ==
    [role |-> "assistant", content |-> <<"Error: ", "Backend unavailable">>,
     isError |-> TRUE]
ExpectedFallbackError ==
    [role |-> "assistant", content |-> <<"Error: ", "Failed to get response.">>,
     isError |-> TRUE]

\* C10: a chat call that settles appends exactly one assistant message: the
\* response's content (with its sources and model when it has them, and no
\* error flag) on success, an isError message "Error: " + detail, or + the
\* fallback text when there is no detail, on failure; the session id, the
\* file set and the earlier messages are unchanged.
C10_OneAssistantMessagePerCall ==
    /\ [](\A i \in 1..Len(chatCalls) :
            /\ \A data \in ChatResponses :
                  ~ENABLED (ChatResolve(i, data)
                            /\ messages' # Append(messages, ExpectedAnswer(data)))
            /\ ~ENABLED (ChatReject(i, [response |-> [data |->
                                [detail |-> <<"Backend unavailable">>]]])
                         /\ messages' # Append(messages, ExpectedDetailError))
            /\ ~ENABLED (ChatReject(i, [message |-> <<"Network Error">>])
                         /\ messages' # Append(messages, ExpectedFallbackError)))
    /\ [][ChatSettled =>
            /\ Len(chatCalls') = Len(chatCalls) - 1
            /\ Len(messages') = Len(messages) + 1
            /\ SubSeq(messages', 1, Len(messages)) = messages
            /\ messages'[Len(messages')].role = "assistant"
            /\ UNCHANGED <<sessionId, uploadedFiles>>]_vars

\* C10 witness: with a session and a file tracked, a question was answered
\* by the error message carrying the server's detail.
C10_Witness ==
    /\ sessionId # NULL
    /\ uploadedFiles # <<>>
    /\ Len(messages) >= 2
    /\ messages[Len(messages)] = ExpectedDetailError

\* ---------------------------------------------------------------------------
\* C11.  An upload request that rejects as a whole leaves the file set, the
\* session id and the transcript as they were, sets exactly one error notice
\* (the server's detail text when the rejection carries one, otherwise the
\* generic message) and lowers the upload-pending flag.
C11_RejectedUploadOnlySetsError ==
    \A i \in 1..Len(uploadCalls) :
        /\ \A err \in Rejections : ENABLED UploadReject(i, err)
        /\ ~ENABLED (/\ UploadReject(i, [response |-> [data |-> [detail |-> <<"Backend unavailable">>]]])
                     /\ ~(/\ error' = <<"Backend unavailable">>
                          /\ isProcessing' = FALSE
                          /\ UNCHANGED <<sessionId, uploadedFiles, messages>>))
        /\ \A err \in Rejections :
              "response" \notin DOMAIN err =>
                  ~ENABLED (/\ UploadReject(i, err)
                            /\ ~(/\ error' = <<"Upload failed. Make sure the backend is running.">>
                                 /\ isProcessing' = FALSE
                                 /\ UNCHANGED <<sessionId, uploadedFiles, messages>>))

\* Reached: after an earlier upload and a chat, a rejected upload has left the
\* server's detail as the notice and everything else in place.
C11_Witness ==
    /\ error = <<"Backend unavailable">>
    /\ ~isProcessing /\ uploadCalls = <<>>
    /\ sessionId # NULL /\ uploadedFiles # <<>> /\ messages # <<>>

\* ---------------------------------------------------------------------------
\* C12.  Every upload that raised the upload-pending flag lowers it when its
\* request settles, whether fulfilled in full, fulfilled in part or rejected;
\* with no upload request outstanding the flag is down.
C12_UploadPendingLowered ==
    /\ [](uploadCalls = <<>> => ~isProcessing)
    /\ [](\A i \in 1..Len(uploadCalls) :
            /\ \A data \in UploadResponses(uploadCalls[i].files) :
                  ~ENABLED (UploadResolve(i, data) /\ isProcessing')
            /\ \A err \in Rejections :
                  ~ENABLED (UploadReject(i, err) /\ isProcessing'))
    /\ [][UploadSettled => ~isProcessing']_vars

\* Reached: an upload fulfilled with no file accepted has settled and the flag
\* is down.
C12_Witness ==
    /\ ~isProcessing /\ uploadCalls = <<>>
    /\ error = <<"Some files failed: ", "notes.pdf", ", ", "b.txt">>

\* ---------------------------------------------------------------------------
\* C13.  Descriptors of different upload batches stand in the file set in the
\* order in which the batches were submitted, also when the batches overlap
\* and their responses arrive in another order; within a batch they keep the
\* order of the response.  In the runs of SpecOverlap the batch of c.md is
\* always submitted after the batch of notes.pdf and b.txt.
NamesInOrder(first, second) ==
    \A j, k \in 1..Len(uploadedFiles) :
        j < k => ~(uploadedFiles[j].name = second /\ uploadedFiles[k].name = first)
C13_BatchesInSubmissionOrder ==
    /\ NamesInOrder("notes.pdf", "c.md")
    /\ NamesInOrder("b.txt", "c.md")
    /\ NamesInOrder("notes.pdf", "b.txt")

\* C13, amended.  Descriptors of different upload batches stand in the file
\* set in the order in which the batches' responses arrive: a response adds
\* its descriptors behind every descriptor already tracked, in the order of
\* the response, whichever batch was submitted first.
C13_BatchesInArrivalOrder ==
    \A i \in 1..Len(uploadCalls) :
        \A data \in UploadResponses(uploadCalls[i].files) :
            /\ ENABLED UploadResolve(i, data)
            /\ ~ENABLED (/\ UploadResolve(i, data)
                         /\ ~(/\ Len(uploadedFiles') = Len(uploadedFiles) + Len(data.processed_files)
                              /\ SubSeq(uploadedFiles', 1, Len(uploadedFiles)) = uploadedFiles
                              /\ \A k \in 1..Len(data.processed_files) :
                                    uploadedFiles'[Len(uploadedFiles) + k].name =
                                        data.processed_files[k].filename))

\* Reached: the second batch was answered before the first, and its
\* descriptor stands in front of the two of the first batch.
C13_Witness ==
    /\ Len(uploadedFiles) = 3
    /\ uploadedFiles[1].name = "c.md"
    /\ uploadedFiles[2].name = "notes.pdf"
    /\ uploadedFiles[3].name = "b.txt"

\* ---------------------------------------------------------------------------
\* C14.  Each successful upload response adds exactly one descriptor per
\* accepted file, carrying the file name and the chunk count of the response,
\* so that without removal and clear the file set has as many descriptors as
\* files were accepted over all batches; the first upload, answered with
\* session "s1" and notes.pdf in 12 chunks, gives session id "s1" and exactly
\* that one descriptor.
FirstAnswer ==
    [session_id |-> "s1",
     processed_files |-> <<[filename |-> "notes.pdf", chunks |-> 12]>>,
     errors |-> <<>>]
AnswerAddsAccepted ==
    /\ \A i \in 1..Len(uploadCalls) :
          \A data \in UploadResponses(uploadCalls[i].files) :
              ~ENABLED (/\ UploadResolve(i, data)
                        /\ ~(/\ Len(uploadedFiles') = Len(uploadedFiles) + Len(data.processed_files)
                             /\ \A k \in 1..Len(uploadedFiles) : uploadedFiles'[k] = uploadedFiles[k]
                             /\ \A k \in 1..Len(data.processed_files) :
                                   uploadedFiles'[Len(uploadedFiles) + k] =
                                       [name |-> data.processed_files[k].filename,
                                        chunks |-> data.processed_files[k].chunks]))
    /\ (/\ sessionId = NULL /\ uploadedFiles = <<>>
        /\ uploadCalls # <<>> /\ uploadCalls[1].files = <<"notes.pdf">>)
          => /\ ENABLED UploadResolve(1, FirstAnswer)
             /\ ~ENABLED (/\ UploadResolve(1, FirstAnswer)
                          /\ ~(/\ sessionId' = "s1"
                               /\ uploadedFiles' = <<[name |-> "notes.pdf", chunks |-> 12]>>))

\* C14 as a whole: every answer adds exactly its accepted files, and the
\* settling of an upload leaves the descriptors tracked before in place.
C14_OneDescriptorPerAcceptedFile ==
    /\ []AnswerAddsAccepted
    /\ [][UploadSettled =>
            /\ Len(uploadedFiles') >= Len(uploadedFiles)
            /\ SubSeq(uploadedFiles', 1, Len(uploadedFiles)) = uploadedFiles]_vars

\* Reached: two batches of one file each were accepted and the file set has
\* the two descriptors, under the session id of an answer.
C14_Witness ==
    /\ uploadedFiles = <<[name |-> "notes.pdf", chunks |-> 12],
                         [name |-> "notes.pdf", chunks |-> 12]>>
    /\ sessionId = "s1" /\ uploadCalls = <<>> /\ error = NoError /\ messages = <<>>

\* ---------------------------------------------------------------------------
\* C15.  In every reachable state no two tracked descriptors have the same
\* name.
C15_NamesUnique ==
    \A j, k \in 1..Len(uploadedFiles) :
        j # k => uploadedFiles[j].name # uploadedFiles[k].name

\* The descriptors of a file set, resp. the accepted files of a response, that
\* carry a name.
Tracked(files, name) == Len(SelectSeq(files, LAMBDA f : f.name = name))
Accepted(data, name) == Len(SelectSeq(data.processed_files, LAMBDA f : f.filename = name))

\* C15, amended.  Descriptors of the same name coexist: an upload response
\* adds one descriptor for each file it accepted, whether or not the name is
\* tracked already, and takes none away, so a name accepted by two responses
\* is tracked twice.
AnswerAddsPerName ==
    \A i \in 1..Len(uploadCalls) :
        \A data \in UploadResponses(uploadCalls[i].files) :
            ~ENABLED (/\ UploadResolve(i, data)
                      /\ \E name \in FileNames :
                            Tracked(uploadedFiles', name) #
                                Tracked(uploadedFiles, name) + Accepted(data, name))

\* C15, amended, as a whole: every answer adds per name what it accepted, and
\* the settling of an upload takes no descriptor of any name away.
C15_DuplicateNamesCoexist ==
    /\ []AnswerAddsPerName
    /\ [][UploadSettled =>
            \A name \in FileNames :
                Tracked(uploadedFiles', name) >= Tracked(uploadedFiles, name)]_vars

\* Reached: notes.pdf is tracked twice, and a chat about it is under way.
C15_Witness ==
    /\ Tracked(uploadedFiles, "notes.pdf") = 2
    /\ isLoading /\ uploadCalls = <<>>

\* ---------------------------------------------------------------------------
\* C16.  Removing a file by name takes every descriptor of that name out of
\* the file set and no other: the remaining descriptors keep their relative
\* order, session id, transcript and pending flags stay as they were, and no
\* request is issued.
RECURSIVE Without(_, _)
Without(files, name) ==
    IF files = <<>> THEN <<>>
    ELSE IF Head(files).name = name THEN Without(Tail(files), name)
    ELSE <<Head(files)>> \o Without(Tail(files), name)
PartialAnswer ==
    [session_id |-> "s1",
     processed_files |-> <<[filename |-> "notes.pdf", chunks |-> 12]>>,
     errors |-> <<[filename |-> "b.txt"]>>]
C17_PartialFailureAddsAccepted ==
    \A i \in 1..Len(uploadCalls) :
        /\ \A data \in UploadResponses(uploadCalls[i].files) :
              (Len(data.processed_files) > 0 /\ Len(data.errors) > 0) =>
                  ~ENABLED (/\ UploadResolve(i, data)
                            /\ ~(/\ Len(uploadedFiles') = Len(uploadedFiles) + Len(data.processed_files)
                                 /\ \A k \in 1..Len(data.processed_files) :
                                       uploadedFiles'[Len(uploadedFiles) + k].name =
                                           data.processed_files[k].filename
                                 /\ Len(error') = 2 * Len(data.errors)
                                 /\ error'[1] = "Some files failed: "
                                 /\ \A k \in 1..Len(data.errors) :
                                       error'[2 * k] = data.errors[k].filename
                                 /\ \A k \in 1..(Len(data.errors) - 1) :
                                       error'[2 * k + 1] = ", "))
        /\ uploadCalls[i].files = <<"notes.pdf", "b.txt">> =>
              /\ ENABLED UploadResolve(i, PartialAnswer)
              /\ ~ENABLED (/\ UploadResolve(i, PartialAnswer)
                           /\ ~(/\ uploadedFiles' = Append(uploadedFiles,
                                                       [name |-> "notes.pdf", chunks |-> 12])
                                /\ error' = <<"Some files failed: ", "b.txt">>))

\* Reached: of a batch of two, notes.pdf is tracked and the notice names b.txt.
C17_Witness ==
    /\ uploadedFiles = <<[name |-> "notes.pdf", chunks |-> 12]>>
    /\ error = <<"Some files failed: ", "b.txt">>
    /\ ~isProcessing /\ uploadCalls = <<>>

\* ---------------------------------------------------------------------------
\* C18.  Every chat request carries the session id the store holds when the
\* message is submitted, or "default" when the store holds none (before any
\* upload, or after a clear).
Submitted == Len(chatCalls') = Len(chatCalls) + 1
C18_ChatCarriesSessionId ==
    /\ sessionId = NULL =>
          ~ENABLED (/\ handleSubmit /\ Submitted
                    /\ chatCalls'[Len(chatCalls')].session_id # "default")
    /\ \A s \in SessionIds :
          sessionId = s =>
              ~ENABLED (/\ handleSubmit /\ Submitted
                        /\ chatCalls'[Len(chatCalls')].session_id # s)
    /\ (~IsBlank(input) /\ ~isLoading /\ messages = <<>>) => ENABLED (handleSubmit /\ Submitted)

\* Reached: a chat submitted before any upload is in flight with "default",
\* and the store has since taken the session id of an upload.
C18_Witness ==
    /\ chatCalls # <<>> /\ chatCalls[1].session_id = "default"
    /\ sessionId = "s1"

\* ---------------------------------------------------------------------------
\* C19.  Switching the model changes the selected model and nothing else:
\* transcript, session id, file set, pending flags and the requests in flight
\* (the model of a pending chat request among them) stay as they were; a chat
\* request carries the model selected when it was submitted.
C19_ModelSwitchOnlySelects ==
    /\ \A model \in Models :
          /\ ENABLED setSelectedModel(model)
          /\ ~ENABLED (/\ setSelectedModel(model)
                       /\ ~(/\ selectedModel' = model
                            /\ UNCHANGED <<sessionId, uploadedFiles, messages, isProcessing,
                                           error, input, isLoading,
                                           uploadCalls, chatCalls, deleteCalls>>))
    /\ \A model \in Models :
          selectedModel = model =>
              ~ENABLED (/\ handleSubmit /\ Submitted
                        /\ chatCalls'[Len(chatCalls')].model # model)

\* Reached: the model was switched while a chat request was pending; the
\* request keeps the model it was submitted with.
C19_Witness ==
    /\ chatCalls # <<>> /\ isLoading
    /\ chatCalls[1].model # selectedModel
    /\ input # <<>>

\* ---------------------------------------------------------------------------
\* C20.  One request per accepted invocation: a non-empty batch issues exactly
\* one upload request carrying the whole batch, an accepted chat submission
\* exactly one chat request, an empty file selection none (and changes no
\* state), and the settling of a request, failed or not, issues no request.
InFlight == Len(uploadCalls) + Len(chatCalls) + Len(deleteCalls)
OneUploadIssued(files) ==
    /\ Len(uploadCalls') = Len(uploadCalls) + 1
    /\ SubSeq(uploadCalls', 1, Len(uploadCalls)) = uploadCalls
    /\ uploadCalls'[Len(uploadCalls')].files = files
    /\ UNCHANGED <<chatCalls, deleteCalls>>
OneRequestEach ==
    /\ \A files \in Batches \ {<<>>} :
          /\ ~ENABLED (handleDrop(files) /\ ~OneUploadIssued(files))
          /\ ~ENABLED (handleFileSelect(files) /\ ~OneUploadIssued(files))
    /\ ENABLED handleDrop(<<>>) /\ ~ENABLED <<handleDrop(<<>>)>>_vars
    /\ ENABLED handleFileSelect(<<>>) /\ ~ENABLED <<handleFileSelect(<<>>)>>_vars
    /\ ~ENABLED (/\ <<handleSubmit>>_vars
                 /\ ~(Submitted /\ UNCHANGED <<uploadCalls, deleteCalls>>))
    /\ ~ENABLED (/\ \/ \E i \in 1..Len(uploadCalls) :
                          \E data \in UploadResponses(uploadCalls[i].files) :
                              UploadResolve(i, data)
                    \/ \E i \in 1..Len(uploadCalls), err \in Rejections : UploadReject(i, err)
                    \/ \E i \in 1..Len(chatCalls), data \in ChatResponses : ChatResolve(i, data)
                    \/ \E i \in 1..Len(chatCalls), err \in Rejections : ChatReject(i, err)
                 /\ InFlight' # InFlight - 1)

\* C20 as a whole: every handler issues what it should, no step issues more
\* than one request, and a settling step issues none.
C20_OneRequestPerInvocation ==
    /\ []OneRequestEach
    /\ [][/\ InFlight' <= InFlight + 1
          /\ (UploadSettled \/ ChatSettled \/ DeleteSettled) => InFlight' = InFlight - 1]_vars

\* Reached: a batch of two files is in flight as one request, next to one
\* chat request.
C20_Witness ==
    /\ Len(uploadCalls) = 1 /\ uploadCalls[1].files = <<"notes.pdf", "b.txt">>
    /\ Len(chatCalls) = 1 /\ deleteCalls = <<>>
    /\ uploadedFiles = <<>> /\ sessionId = NULL

\* ---------------------------------------------------------------------------
\* C21.  In every reachable state, upload-pending is true while at least one
\* upload request is in flight, also when two batches overlap and one of them
\* settles before the other.
C21_PendingWhileInFlight == uploadCalls # <<>> => isProcessing

\* ---------------------------------------------------------------------------
\* C22.  In every reachable state a file set that is not empty comes with a
\* session id that is not null, also when an upload response arrives after a
\* clear.
C22_FilesImplySession == uploadedFiles # <<>> => sessionId # NULL

\* Reached: files are tracked under a session id although the transcript is
\* empty with a chat request still in flight, which only a clear leaves
\* behind: the upload response came after the clear.
C22_Witness ==
    /\ uploadedFiles # <<>> /\ sessionId # NULL
    /\ chatCalls # <<>> /\ messages = <<>>

==========================================================================
